---- MODULE Spec2Model ----
(***************************************************************************)
(* go-tailf: the tail engine of tailf.go (Follow, tailLoop, checkFileState, *)
(* waitForData, openFile), the file system it follows and the writer,      *)
(* consumer and canceller around it.                                       *)
(*                                                                         *)
(* A byte is an integer: LF and CR are the two line-ending bytes the code  *)
(* treats specially; every other byte is a data byte.  The code never      *)
(* looks at the value of a data byte, so the writer gives each data byte   *)
(* it writes a fresh value (Data(n)): a Line's text then tells which       *)
(* writes it is made of.                                                   *)
(***************************************************************************)
EXTENDS Integers, Sequences, FiniteSets, TLC

\* ------------------------------------------------------------------ bounds
\* Operations on the file system and the notify channel after construction:
\* writes, truncations, renames and wake signals together.
MaxOps == 2
\* Complete lines in the file before Follow is called.
MaxInitLines == 2
\* Capacity of the lines channel, scaled down from make(chan Line, 64).
QueueCap == 2
\* Size of the bufio.Reader buffer, scaled down from 4096.
BufSize == 2
\* The budgets of the specification with fairness.
LiveOps == 2
LiveInitLines == 1

\* ------------------------------------------------------------------- bytes
LF == 10
CR == 13
Data(n) == 100 + n
IsData(b) == b >= 100

VARIABLES
    \* the file system
    files,        \* files[ino]: the content of the file with that inode
    path,         \* the inode the followed path resolves to, 0 when it does not
    realIDs,      \* TRUE where getFileIdentity has device/inode (fileidentity.go)
    \* the options
    o,            \* [fromStart, notify]
    \* what Follow returned
    tailer,       \* TRUE when Follow returned a Tailer, FALSE when it returned nil
    followErr,    \* Follow's error: <<>> for nil, else <<"tailf", cause>>
    \* context and wake source
    cancelled,    \* ctx.Done() is closed
    sig,          \* values waiting in the notify channel
    \* tailLoop's locals
    pc,           \* where the background task is
    file,         \* the handle tailLoop holds (the inode it is open on)
    pos,          \* the handle's offset
    rbuf,         \* the bufio.Reader's buffered, unreturned bytes
    fileID,       \* the identity held for the handle
    partialLine,  \* partialLine
    line,         \* the text of the Line being sent
    retErr,       \* tailLoop's return value
    \* the Tailer
    lines,        \* the lines channel's buffer
    linesClosed,  \* close(t.lines) has run
    doneClosed,   \* close(t.done) has run
    err,          \* t.err
    open,         \* the inodes the engine has an open handle on
    \* history (read by no action's guard or effect on the program state)
    emitted,      \* every Line text ever sent on the channel, in order
    terminated,   \* data bytes that an LF has followed in their file
    stale,        \* data bytes in partialLine when the file was truncated to zero
    truncIdx,     \* Len(emitted) at the last truncation to zero
    orphaned,     \* data bytes written to a file after it was renamed away
    released,     \* data bytes written to a renamed-away file the engine no longer held
    stopReason,   \* why tailLoop returned: "none", "cancel" or "fault"
    initial,      \* the content of the file when Follow was called
    eofSeen,      \* Len(emitted) + 1 once a read has hit EOF, else 0
    n,            \* counts so far: [ops, bytes, truncs, zeroed, rots]
    lim,          \* the budget of operations
    \* the consumer: FollowFunc's loop over Lines()
    received,     \* the texts passed to the callback, in order
    ffRet,        \* FollowFunc's return: [done, openErr, finalErr]
    \* more history
    readLines,    \* the non-empty texts tailLoop completed, in the order read
    reopenIdx,    \* Len(emitted) at the last reopen
    discarded,    \* data bytes in partialLine when the path was reopened
    preRename,    \* data bytes of complete lines of a file when it was renamed away
    cancelIdx,    \* Len(emitted) when the context was cancelled
    cancelInWait, \* the context was cancelled with tailLoop in waitForData
    found         \* during the wait: what the state check before it found

fsVars == <<files, path, realIDs>>
cfgVars == <<o, lim, initial, tailer, followErr>>
loopVars == <<pc, file, pos, rbuf, fileID, partialLine, line, retErr>>
tailerVars == <<lines, linesClosed, doneClosed, err, open>>
histVars == <<emitted, terminated, stale, truncIdx, orphaned, released,
             eofSeen, n>>
consumerVars == <<received, ffRet>>
pastVars == <<readLines, reopenIdx, discarded, preRename, cancelIdx,
             cancelInWait>>
ghostVars == <<pastVars, found>>
vars == <<fsVars, cfgVars, cancelled, sig, loopVars, tailerVars, histVars,
          stopReason, consumerVars, ghostVars>>

\* ----------------------------------------------------------------- helpers
Min(a, b) == IF a <= b THEN a ELSE b

Range(s) == {s[i] : i \in 1..Len(s)}

DataBytes(s) == {b \in Range(s) : IsData(b)}

\* strings.TrimRight(line, "\r\n")
RECURSIVE TrimRight(_)
TrimRight(s) ==
    IF s # <<>> /\ s[Len(s)] \in {CR, LF}
    THEN TrimRight(SubSeq(s, 1, Len(s) - 1))
    ELSE s

\* The index of the first LF of s (s holds one).
IndexLF(s) == CHOOSE i \in 1..Len(s) : s[i] = LF /\ \A j \in 1..(i - 1) : s[j] # LF

\* bufio.Reader.ReadString('\n') on a reader holding buf over a handle at
\* offset p of a file holding data: search the buffer; when it holds no
\* delimiter and is full, set it aside (collectFragments) and go on; else
\* fill it with one Read of at most the free space; a Read of no byte is EOF
\* and returns what was gathered.
RECURSIVE ReadLoop(_, _, _, _)
ReadLoop(acc, buf, p, data) ==
    IF LF \in Range(buf)
    THEN [line |-> acc \o SubSeq(buf, 1, IndexLF(buf)),
          rbuf |-> SubSeq(buf, IndexLF(buf) + 1, Len(buf)),
          pos |-> p, eof |-> FALSE]
    ELSE IF Len(buf) >= BufSize
    THEN ReadLoop(acc \o buf, <<>>, p, data)
    ELSE LET k == Min(BufSize - Len(buf), Len(data) - p) IN
         IF k <= 0
         THEN [line |-> acc \o buf, rbuf |-> <<>>, pos |-> p, eof |-> TRUE]
         ELSE ReadLoop(acc, buf \o SubSeq(data, p + 1, p + k), p + k, data)

ReadString(buf, p, data) == ReadLoop(<<>>, buf, p, data)

\* ------------------------------------------ lines of a byte sequence
IsPrefix(a, b) == Len(a) <= Len(b) /\ SubSeq(b, 1, Len(a)) = a

\* s without its trailing line-ending bytes: its longest prefix that is
\* empty or ends in a byte that is neither CR nor LF.
Stripped(s) ==
    LET ends == {k \in 0..Len(s) : k = 0 \/ s[k] \notin {CR, LF}}
        last == CHOOSE k \in ends : \A j \in ends : j <= k
    IN SubSeq(s, 1, last)

\* The lines a byte sequence holds: every LF ends one; its text is the bytes
\* since the previous LF, stripped; a line of no text is none.
RECURSIVE LinesOf(_)
LinesOf(s) ==
    IF LF \notin Range(s) THEN <<>>
    ELSE LET i == IndexLF(s)
             t == Stripped(SubSeq(s, 1, i))
         IN (IF t = <<>> THEN <<>> ELSE <<t>>) \o LinesOf(SubSeq(s, i + 1, Len(s)))

BytesOf(ls) == UNION {DataBytes(ls[i]) : i \in 1..Len(ls)}

\* getFileIdentity: device and inode on unix, the zero identity on windows.
getFileIdentity(ino) == IF realIDs THEN ino ELSE 0

\* openFile without the seek to the end.
openFileAtStart(fromStart, data) == 0

\* openFile: the offset after the optional seek to the end.
openFile(fromStart, data) == IF fromStart THEN 0 ELSE Len(data)

\* The step of openFile that fails: os.Open, the seek to the end (taken only
\* when fromStart is false), or file.Stat.
OpenFailures(fromStart) == {"open", "stat"} \cup (IF fromStart THEN {} ELSE {"seek"})

\* The handles openFile has opened when the step fails.
OpenedBefore(stage) == IF stage = "open" THEN {} ELSE {1}

\* openFile that returns the seek error without closing the file.
ClosedOnFailureNoSeek(stage) == IF stage = "stat" THEN {1} ELSE {}

\* The handles openFile closes before it returns the failure.
ClosedOnFailure(stage) == IF stage \in {"seek", "stat"} THEN {1} ELSE {}

\* Follow's error for a failure of openFile: fmt.Errorf("tailf: %w", err).
WrapError(cause) == <<"tailf", cause>>

\* tailLoop at EOF, assigning where it should append: partialLine = line
BufferPartialDrop(partial, raw) == raw

\* tailLoop at EOF: partialLine += line
BufferPartial(partial, raw) == partial \o raw

\* tailLoop on a complete line without the TrimRight.
CompleteLineUntrimmed(partial, raw) == partial \o raw

\* tailLoop on a complete line: prepend partialLine, strip the line ending.
CompleteLine(partial, raw) == TrimRight(partial \o raw)

\* checkFileState's truncation test.
IsTruncated(size, currentPos) == size < currentPos

\* checkFileState's rotation test.
IsRotated(newID, heldID) == newID # heldID /\ newID # 0

\* tailLoop ignoring reopened: partialLine is kept.
AfterCheckKeep(partial, reopened) == partial

\* partialLine after checkFileState returned reopened.
AfterCheck(partial, reopened) == IF reopened THEN <<>> ELSE partial

\* ------------------------------------------------------------------- Init
\* The file before Follow: k complete lines of one data byte each, then
\* perhaps an unterminated byte.
RECURSIVE InitLines(_)
InitLines(k) == IF k = 0 THEN <<>> ELSE InitLines(k - 1) \o <<Data(k), LF>>

InitContent(k, tail) == InitLines(k) \o (IF tail THEN <<Data(k + 1)>> ELSE <<>>)

InitWith(maxLines, ops) ==
    /\ \E k \in 0..maxLines, tail \in BOOLEAN :
          /\ files = <<InitContent(k, tail)>>
          /\ initial = InitContent(k, tail)
          /\ terminated = DataBytes(InitLines(k))
          /\ n = [ops |-> 0, bytes |-> k + (IF tail THEN 1 ELSE 0),
                  truncs |-> 0, zeroed |-> 0, rots |-> 0]
    /\ path = 1
    /\ realIDs \in BOOLEAN
    /\ o \in [fromStart : BOOLEAN, notify : BOOLEAN]
    /\ lim = ops
    /\ cancelled = FALSE
    /\ sig = 0
    \* Follow: openFile, then the Tailer, then the background task.
    /\ pc = "top"
    /\ file = 1
    /\ pos = openFile(o.fromStart, files[1])
    /\ rbuf = <<>>
    /\ fileID = getFileIdentity(1)
    /\ partialLine = <<>>
    /\ line = <<>>
    /\ retErr = "nil"
    /\ lines = <<>>
    /\ linesClosed = FALSE
    /\ doneClosed = FALSE
    /\ err = "nil"
    /\ open = {1}
    /\ emitted = <<>>
    /\ stale = {}
    /\ truncIdx = 0
    /\ orphaned = {}
    /\ released = {}
    /\ stopReason = "none"
    /\ eofSeen = 0
    /\ tailer = TRUE
    /\ followErr = <<>>
    /\ received = <<>>
    /\ ffRet = [done |-> FALSE, openErr |-> <<>>, finalErr |-> "nil"]
    /\ readLines = <<>>
    /\ reopenIdx = 0
    /\ discarded = {}
    /\ preRename = {}
    /\ cancelIdx = 0
    /\ cancelInWait = FALSE
    /\ found = "none"

\* Follow when openFile fails: nil and the wrapped error are returned before
\* the Tailer is made and before the goroutine is started.  The path resolves
\* to no file (missing) or to a file that cannot be opened, sought or stat'ed.
InitFailed(ops) ==
    /\ \E missing \in BOOLEAN :
          /\ files = <<InitContent(1, FALSE)>>
          /\ path = IF missing THEN 0 ELSE 1
          /\ initial = IF missing THEN <<>> ELSE InitContent(1, FALSE)
          /\ o \in [fromStart : BOOLEAN, notify : BOOLEAN]
          /\ \E stage \in OpenFailures(o.fromStart) :
                /\ missing => stage = "open"
                /\ open = OpenedBefore(stage) \ ClosedOnFailure(stage)
                /\ followErr = WrapError(stage)
    /\ realIDs \in BOOLEAN
    /\ lim = ops
    /\ tailer = FALSE
    /\ pc = "unstarted"
    /\ cancelled = FALSE
    /\ sig = 0
    /\ file = 0
    /\ pos = 0
    /\ rbuf = <<>>
    /\ fileID = 0
    /\ partialLine = <<>>
    /\ line = <<>>
    /\ retErr = "nil"
    /\ lines = <<>>
    /\ linesClosed = FALSE
    /\ doneClosed = FALSE
    /\ err = "nil"
    /\ emitted = <<>>
    /\ terminated = {}
    /\ stale = {}
    /\ truncIdx = 0
    /\ orphaned = {}
    /\ released = {}
    /\ stopReason = "none"
    /\ eofSeen = 0
    /\ n = [ops |-> 0, bytes |-> 0, truncs |-> 0, zeroed |-> 0, rots |-> 0]
    /\ received = <<>>
    /\ ffRet = [done |-> FALSE, openErr |-> <<>>, finalErr |-> "nil"]
    /\ readLines = <<>>
    /\ reopenIdx = 0
    /\ discarded = {}
    /\ preRename = {}
    /\ cancelIdx = 0
    /\ cancelInWait = FALSE
    /\ found = "none"

Init == InitWith(MaxInitLines, MaxOps) \/ InitFailed(MaxOps)

\* ------------------------------------------------------------ the engine
\* tailLoop returns e.
Return(e, why) == pc' = "ret" /\ retErr' = e /\ stopReason' = why

\* checkFileState returning the old reader with the new handle: reads keep
\* coming from the file Follow opened.
HeldDataOriginal == files[1]

\* The bytes the held handle reads from.
HeldData == files[file]

\* tailLoop without the select at the top of the loop: it goes on to read.
TopNoCancel ==
    /\ pc = "top"
    /\ pc' = "read"
    /\ UNCHANGED <<fsVars, cfgVars, consumerVars, ghostVars,
                   cancelled, sig, file, pos, rbuf, fileID,
                   partialLine, line, retErr, stopReason, tailerVars, histVars>>

\* tailLoop, the select at the top of the loop.
Top ==
    /\ pc = "top"
    /\ IF cancelled
       THEN Return("nil", "cancel")
       ELSE pc' = "read" /\ UNCHANGED <<retErr, stopReason>>
    /\ UNCHANGED <<fsVars, cfgVars, consumerVars, ghostVars,
                   cancelled, sig, file, pos, rbuf, fileID,
                   partialLine, line, tailerVars, histVars>>

\* reader.ReadString fails with an error that is not io.EOF.
ReadError ==
    /\ pc = "read"
    /\ Return("read error", "fault")
    /\ UNCHANGED <<fsVars, cfgVars, consumerVars, ghostVars,
                   cancelled, sig, file, pos, rbuf, fileID,
                   partialLine, line, tailerVars, histVars>>

\* reader.ReadString returns io.EOF: buffer what was read.
ReadEOF ==
    /\ pc = "read"
    /\ LET r == ReadString(rbuf, pos, HeldData) IN
          /\ r.eof
          /\ rbuf' = r.rbuf
          /\ pos' = r.pos
          /\ partialLine' = BufferPartial(partialLine, r.line)
    /\ pc' = "check"
    /\ eofSeen' = IF eofSeen = 0 THEN Len(emitted) + 1 ELSE eofSeen
    /\ UNCHANGED <<fsVars, cfgVars, consumerVars, ghostVars,
                   cancelled, sig, file, fileID, line, retErr,
                   tailerVars, emitted, terminated, stale, truncIdx, orphaned,
                   released, n, stopReason>>

\* reader.ReadString returns a line ending in the delimiter.
ReadLine ==
    /\ pc = "read"
    /\ LET r == ReadString(rbuf, pos, HeldData) IN
          /\ ~r.eof
          /\ rbuf' = r.rbuf
          /\ pos' = r.pos
          /\ LET text == CompleteLine(partialLine, r.line) IN
                IF text = <<>>
                THEN pc' = "top" /\ UNCHANGED <<line, readLines>>
                ELSE /\ pc' = "send" /\ line' = text
                     /\ readLines' = Append(readLines, text)
    /\ partialLine' = <<>>
    /\ UNCHANGED <<fsVars, cfgVars, consumerVars, reopenIdx, discarded, preRename,
                   cancelIdx, cancelInWait, found,
                   cancelled, sig, file, fileID, retErr,
                   tailerVars, histVars, stopReason>>

\* checkFileState: file.Seek or file.Stat on the held handle fails.
CheckError ==
    /\ pc = "check"
    /\ \E e \in {"seek error", "stat error"} : Return(e, "fault")
    /\ UNCHANGED <<fsVars, cfgVars, consumerVars, ghostVars,
                   cancelled, sig, file, pos, rbuf, fileID,
                   partialLine, line, tailerVars, histVars>>

\* checkFileState: the size is below the offset, and the seek to the start
\* fails.
CheckTruncatedError ==
    /\ pc = "check"
    /\ IsTruncated(Len(HeldData), pos)
    /\ Return("seek after truncation", "fault")
    /\ UNCHANGED <<fsVars, cfgVars, consumerVars, ghostVars,
                   cancelled, sig, file, pos, rbuf, fileID,
                   partialLine, line, tailerVars, histVars>>

\* checkFileState: the size is below the offset; seek to the start and reset
\* the reader.  reopened is false.
CheckTruncated ==
    /\ pc = "check"
    /\ IsTruncated(Len(HeldData), pos)
    /\ pos' = 0
    /\ rbuf' = <<>>
    /\ partialLine' = AfterCheck(partialLine, FALSE)
    /\ pc' = "wait"
    /\ found' = "truncated"
    /\ UNCHANGED <<fsVars, cfgVars, consumerVars, pastVars,
                   cancelled, sig, file, fileID, line, retErr,
                   tailerVars, histVars, stopReason>>

\* checkFileState seeking to the start where it should ask for the current
\* offset: file.Seek(0, io.SeekStart).
CheckSameRewind ==
    /\ pc = "check"
    /\ ~IsTruncated(Len(HeldData), pos)
    /\ path = 0 \/ ~IsRotated(getFileIdentity(path), fileID)
    /\ pos' = 0
    /\ rbuf' = <<>>
    /\ partialLine' = AfterCheck(partialLine, FALSE)
    /\ pc' = "wait"
    /\ found' = IF path = 0 THEN "missing" ELSE "same"
    /\ UNCHANGED <<fsVars, cfgVars, consumerVars, pastVars,
                   cancelled, sig, file, fileID, line,
                   retErr, tailerVars, histVars, stopReason>>

\* checkFileState returning the error of os.Stat(path) to tailLoop.
CheckSameFatal ==
    /\ pc = "check"
    /\ ~IsTruncated(Len(HeldData), pos)
    /\ path = 0 \/ ~IsRotated(getFileIdentity(path), fileID)
    /\ IF path = 0
       THEN Return("stat path", "fault") /\ UNCHANGED <<rbuf, partialLine, found>>
       ELSE /\ rbuf' = <<>>
            /\ partialLine' = AfterCheck(partialLine, FALSE)
            /\ pc' = "wait"
            /\ found' = "same"
            /\ UNCHANGED <<retErr, stopReason>>
    /\ UNCHANGED <<fsVars, cfgVars, consumerVars, pastVars,
                   cancelled, sig, file, pos, fileID, line,
                   tailerVars, histVars>>

\* checkFileState: not truncated; os.Stat(path) fails, or the identity is
\* the held one or the zero one: nothing changes, tailLoop resets the reader.
CheckSame ==
    /\ pc = "check"
    /\ ~IsTruncated(Len(HeldData), pos)
    /\ path = 0 \/ ~IsRotated(getFileIdentity(path), fileID)
    /\ rbuf' = <<>>
    /\ partialLine' = AfterCheck(partialLine, FALSE)
    /\ pc' = "wait"
    /\ found' = IF path = 0 THEN "missing" ELSE "same"
    /\ UNCHANGED <<fsVars, cfgVars, consumerVars, pastVars,
                   cancelled, sig, file, pos, fileID, line,
                   retErr, tailerVars, histVars, stopReason>>

\* checkFileState telling a rotation by the files themselves (os.SameFile)
\* where it should compare identities.
CheckRotatedSameFile ==
    /\ pc = "check"
    /\ ~IsTruncated(Len(HeldData), pos)
    /\ path # 0 /\ path # file
    /\ pc' = "reopen"
    /\ UNCHANGED <<fsVars, cfgVars, consumerVars, ghostVars,
                   cancelled, sig, file, pos, rbuf, fileID,
                   partialLine, line, retErr, tailerVars, histVars, stopReason>>

\* checkFileState: not truncated; the path has another identity.
CheckRotated ==
    /\ pc = "check"
    /\ ~IsTruncated(Len(HeldData), pos)
    /\ path # 0 /\ IsRotated(getFileIdentity(path), fileID)
    /\ pc' = "reopen"
    /\ UNCHANGED <<fsVars, cfgVars, consumerVars, ghostVars,
                   cancelled, sig, file, pos, rbuf, fileID,
                   partialLine, line, retErr, tailerVars, histVars, stopReason>>

\* checkFileState: os.Open(path) fails (the path no longer resolves).
ReopenFails ==
    /\ pc = "reopen"
    /\ path = 0
    /\ rbuf' = <<>>
    /\ partialLine' = AfterCheck(partialLine, FALSE)
    /\ pc' = "wait"
    /\ found' = "unopened"
    /\ UNCHANGED <<fsVars, cfgVars, consumerVars, pastVars,
                   cancelled, sig, file, pos, fileID, line,
                   retErr, tailerVars, histVars, stopReason>>

\* checkFileState: os.Open(path) succeeds, the old handle is closed, and
\* newFile.Stat fails: the new handle is closed too.
ReopenStatError ==
    /\ pc = "reopen"
    /\ path # 0
    /\ open' = open \ {file}
    /\ Return("stat new file", "fault")
    /\ UNCHANGED <<fsVars, cfgVars, consumerVars, ghostVars,
                   cancelled, sig, file, pos, rbuf, fileID,
                   partialLine, line, lines, linesClosed, doneClosed, err,
                   histVars>>

\* checkFileState reopening through openFile, which seeks to the end unless
\* fromStart is set.
ReopenSeekEnd ==
    /\ pc = "reopen"
    /\ path # 0
    /\ open' = (open \ {file}) \cup {path}
    /\ file' = path
    /\ pos' = openFile(o.fromStart, files[path])
    /\ rbuf' = <<>>
    /\ fileID' = getFileIdentity(path)
    /\ partialLine' = AfterCheck(partialLine, TRUE)
    /\ reopenIdx' = Len(emitted)
    /\ discarded' = discarded \cup DataBytes(partialLine)
    /\ pc' = "wait"
    /\ found' = "reopened"
    /\ UNCHANGED <<fsVars, cfgVars, consumerVars, readLines, preRename, cancelIdx, cancelInWait,
                   cancelled, sig, line, retErr, lines,
                   linesClosed, doneClosed, err, histVars, stopReason>>

\* checkFileState: the new file is opened and replaces the held handle.
Reopen ==
    /\ pc = "reopen"
    /\ path # 0
    /\ open' = (open \ {file}) \cup {path}
    /\ file' = path
    /\ pos' = 0
    /\ rbuf' = <<>>
    /\ fileID' = getFileIdentity(path)
    /\ partialLine' = AfterCheck(partialLine, TRUE)
    /\ reopenIdx' = Len(emitted)
    /\ discarded' = discarded \cup DataBytes(partialLine)
    /\ pc' = "wait"
    /\ found' = "reopened"
    /\ UNCHANGED <<fsVars, cfgVars, consumerVars, readLines, preRename, cancelIdx, cancelInWait,
                   cancelled, sig, line, retErr, lines,
                   linesClosed, doneClosed, err, histVars, stopReason>>

\* waitForData with a timer that never fires.
WakeTimerNever == pc = "wait" /\ UNCHANGED vars

\* waitForData: the poll timer fires.
WakeTimer ==
    /\ pc = "wait"
    /\ pc' = "top"
    /\ found' = "none"
    /\ UNCHANGED <<fsVars, cfgVars, consumerVars, pastVars,
                   cancelled, sig, file, pos, rbuf, fileID,
                   partialLine, line, retErr, tailerVars, histVars, stopReason>>

\* waitForData without the notify case in the select.
WakeNotifyNever == FALSE /\ UNCHANGED vars

\* waitForData: a value arrives on the notify channel.
WakeNotify ==
    /\ pc = "wait"
    /\ o.notify
    /\ sig > 0
    /\ sig' = sig - 1
    /\ pc' = "top"
    /\ found' = "none"
    /\ UNCHANGED <<fsVars, cfgVars, consumerVars, pastVars,
                   cancelled, file, pos, rbuf, fileID,
                   partialLine, line, retErr, tailerVars, histVars, stopReason>>

\* waitForData without the ctx.Done() case in its selects.
WakeCancelNever == FALSE /\ UNCHANGED vars

\* waitForData: ctx.Done() is closed.
WakeCancel ==
    /\ pc = "wait"
    /\ cancelled
    /\ pc' = "top"
    /\ found' = "none"
    /\ UNCHANGED <<fsVars, cfgVars, consumerVars, pastVars,
                   cancelled, sig, file, pos, rbuf, fileID,
                   partialLine, line, retErr, tailerVars, histVars, stopReason>>

\* A send that does not block: with no room in the channel the Line is
\* dropped (select with a default case).
SendOrDrop ==
    /\ pc = "send"
    /\ lines' = IF Len(lines) < QueueCap THEN Append(lines, line) ELSE lines
    /\ emitted' = IF Len(lines) < QueueCap THEN Append(emitted, line) ELSE emitted
    /\ pc' = "top"
    /\ UNCHANGED <<fsVars, cfgVars, consumerVars, ghostVars,
                   cancelled, sig, file, pos, rbuf, fileID,
                   partialLine, line, retErr, linesClosed, doneClosed, err, open,
                   terminated, stale, truncIdx, orphaned, released, eofSeen, n,
                   stopReason>>

\* A send that puts the Line at the head of the queue.
SendToFront ==
    /\ pc = "send"
    /\ Len(lines) < QueueCap
    /\ lines' = <<line>> \o lines
    /\ emitted' = Append(emitted, line)
    /\ pc' = "top"
    /\ UNCHANGED <<fsVars, cfgVars, consumerVars, ghostVars,
                   cancelled, sig, file, pos, rbuf, fileID,
                   partialLine, line, retErr, linesClosed, doneClosed, err, open,
                   terminated, stale, truncIdx, orphaned, released, eofSeen, n,
                   stopReason>>

\* tailLoop's send: the channel has room.
Send ==
    /\ pc = "send"
    /\ Len(lines) < QueueCap
    /\ lines' = Append(lines, line)
    /\ emitted' = Append(emitted, line)
    /\ pc' = "top"
    /\ UNCHANGED <<fsVars, cfgVars, consumerVars, ghostVars,
                   cancelled, sig, file, pos, rbuf, fileID,
                   partialLine, line, retErr, linesClosed, doneClosed, err, open,
                   terminated, stale, truncIdx, orphaned, released, eofSeen, n,
                   stopReason>>

\* tailLoop's send without the ctx.Done() case: a bare t.lines <- l.
SendNoCancel == FALSE /\ UNCHANGED vars

\* tailLoop's send: ctx.Done() is closed.
SendCancel ==
    /\ pc = "send"
    /\ cancelled
    /\ Return("nil", "cancel")
    /\ UNCHANGED <<fsVars, cfgVars, consumerVars, ghostVars,
                   cancelled, sig, file, pos, rbuf, fileID,
                   partialLine, line, tailerVars, histVars>>

\* Follow's goroutine dropping tailLoop's error.
SetErrSkip ==
    /\ pc = "ret"
    /\ pc' = "closefile"
    /\ UNCHANGED <<fsVars, cfgVars, consumerVars, ghostVars,
                   cancelled, sig, file, pos, rbuf, fileID,
                   partialLine, line, retErr, tailerVars, histVars, stopReason>>

\* Follow's goroutine after tailLoop returned: t.setErr(err) when err != nil.
SetErr ==
    /\ pc = "ret"
    /\ err' = IF retErr # "nil" THEN retErr ELSE err
    /\ pc' = "closefile"
    /\ UNCHANGED <<fsVars, cfgVars, consumerVars, ghostVars,
                   cancelled, sig, file, pos, rbuf, fileID,
                   partialLine, line, retErr, lines, linesClosed, doneClosed,
                   open, histVars, stopReason>>

\* The handle the deferred file.Close() closes: Follow's own variable, the
\* handle openFile returned.
DeferredHandle == 1

\* defer file.Close()
CloseFile ==
    /\ pc = "closefile"
    /\ open' = open \ {DeferredHandle}
    /\ pc' = "closelines"
    /\ UNCHANGED <<fsVars, cfgVars, consumerVars, ghostVars,
                   cancelled, sig, file, pos, rbuf, fileID,
                   partialLine, line, retErr, lines, linesClosed, doneClosed,
                   err, histVars, stopReason>>

\* defer close(t.lines)
CloseLines ==
    /\ pc = "closelines"
    /\ linesClosed' = TRUE
    /\ pc' = "closedone"
    /\ UNCHANGED <<fsVars, cfgVars, consumerVars, ghostVars,
                   cancelled, sig, file, pos, rbuf, fileID,
                   partialLine, line, retErr, lines, doneClosed, err, open,
                   histVars, stopReason>>

\* defer close(t.done)
CloseDone ==
    /\ pc = "closedone"
    /\ doneClosed' = TRUE
    /\ pc' = "stopped"
    /\ UNCHANGED <<fsVars, cfgVars, consumerVars, ghostVars,
                   cancelled, sig, file, pos, rbuf, fileID,
                   partialLine, line, retErr, lines, linesClosed, err, open,
                   histVars, stopReason>>

Engine ==
    \/ Top \/ ReadError \/ ReadEOF \/ ReadLine
    \/ CheckError \/ CheckTruncatedError \/ CheckTruncated \/ CheckSame
    \/ CheckRotated \/ ReopenFails \/ ReopenStatError \/ Reopen
    \/ WakeTimer \/ WakeNotify \/ WakeCancel
    \/ Send \/ SendCancel
    \/ SetErr \/ CloseFile \/ CloseLines \/ CloseDone

\* ------------------------------------------------------- the environment
\* tailLoop has not returned: the engine still reads the file system and
\* the notify channel.  What happens to them afterwards reaches no one.
Following == pc \in {"top", "read", "check", "reopen", "wait", "send"}

CanOperate == Following /\ n.ops < lim

\* FollowFunc's loop: the consumer receives a Line from Lines() and passes
\* it to the callback.
Consume ==
    /\ lines # <<>>
    /\ ~ffRet.done
    /\ lines' = Tail(lines)
    /\ received' = Append(received, Head(lines))
    /\ UNCHANGED ffRet
    /\ UNCHANGED <<fsVars, cfgVars, ghostVars,
                   cancelled, sig, loopVars, linesClosed,
                   doneClosed, err, open, histVars, stopReason>>

\* FollowFunc returning while the channel is still open, as soon as it is
\* empty.
FollowFuncReturnEarly ==
    /\ ~ffRet.done
    /\ tailer
    /\ lines = <<>>
    /\ ffRet' = [done |-> TRUE, openErr |-> followErr, finalErr |-> err]
    /\ UNCHANGED <<fsVars, cfgVars, received, ghostVars, cancelled, sig,
                   loopVars, tailerVars, histVars, stopReason>>

\* FollowFunc returns: Follow's error when Follow failed; else t.Err() once
\* the range over Lines() has ended (the channel is closed and drained).
FollowFuncReturn ==
    /\ ~ffRet.done
    /\ tailer => linesClosed /\ lines = <<>>
    /\ ffRet' = [done |-> TRUE, openErr |-> followErr, finalErr |-> err]
    /\ UNCHANGED <<fsVars, cfgVars, received, ghostVars, cancelled, sig,
                   loopVars, tailerVars, histVars, stopReason>>

\* The caller cancels the context.
Cancel ==
    /\ ~cancelled
    /\ pc # "stopped"
    /\ cancelled' = TRUE
    /\ cancelIdx' = Len(emitted)
    /\ cancelInWait' = (pc = "wait")
    /\ UNCHANGED <<fsVars, cfgVars, consumerVars, readLines, reopenIdx, discarded,
                   preRename, found, sig, loopVars, tailerVars, histVars, stopReason>>

\* The file watcher sends a wake signal on its channel (of capacity 1),
\* whether or not the engine was given the channel with WithNotify.
Signal ==
    /\ CanOperate
    /\ sig = 0
    /\ sig' = 1
    /\ n' = [n EXCEPT !.ops = @ + 1]
    /\ UNCHANGED <<fsVars, cfgVars, consumerVars, ghostVars,
                   cancelled, loopVars, tailerVars, emitted,
                   terminated, stale, truncIdx, orphaned, released, eofSeen, stopReason>>

\* What one write may append: a fresh data byte, a line ending byte, or a
\* whole line (a fresh data byte and its LF).
Chunks == {<<Data(n.bytes + 1)>>, <<CR>>, <<LF>>, <<Data(n.bytes + 1), LF>>}

\* A writer appends a chunk to a file, the one at the path or one renamed away.
WriteChunk(f, c) ==
    /\ CanOperate
    /\ files' = [files EXCEPT ![f] = @ \o c]
    /\ n' = [n EXCEPT !.ops = @ + 1, !.bytes = @ + Cardinality(DataBytes(c))]
    /\ terminated' = IF LF \in Range(c)
                     THEN terminated \cup DataBytes(files[f] \o c)
                     ELSE terminated
    /\ orphaned' = IF f # path THEN orphaned \cup DataBytes(c) ELSE orphaned
    /\ released' = IF f # path /\ f # file THEN released \cup DataBytes(c)
                   ELSE released
    /\ UNCHANGED <<path, realIDs, cfgVars, consumerVars, ghostVars,
                   cancelled, sig, loopVars, tailerVars,
                   emitted, stale, truncIdx, eofSeen, stopReason>>

Write == \E f \in 1..Len(files), c \in Chunks : WriteChunk(f, c)

\* The file at the path is truncated to a shorter length k.
Truncate ==
    /\ CanOperate
    /\ path # 0
    /\ \E k \in 0..(Len(files[path]) - 1) :
          /\ files' = [files EXCEPT ![path] = SubSeq(@, 1, k)]
          /\ stale' = IF k = 0 /\ path = file THEN stale \cup DataBytes(partialLine)
                      ELSE stale
          /\ truncIdx' = IF k = 0 /\ path = file THEN Len(emitted) ELSE truncIdx
          /\ n' = [n EXCEPT !.ops = @ + 1, !.truncs = @ + 1,
                            !.zeroed = IF k = 0 THEN @ + 1 ELSE @]
    /\ UNCHANGED <<path, realIDs, cfgVars, consumerVars, ghostVars,
                   cancelled, sig, loopVars, tailerVars,
                   emitted, terminated, orphaned, released, eofSeen,
                   stopReason>>

\* Rotation, first half: the file at the path is renamed away.
Rename ==
    /\ CanOperate
    /\ path # 0
    /\ path' = 0
    /\ preRename' = preRename \cup BytesOf(LinesOf(files[path]))
    /\ n' = [n EXCEPT !.ops = @ + 1, !.rots = @ + 1]
    /\ UNCHANGED <<files, realIDs, cfgVars, consumerVars, readLines, reopenIdx, discarded,
                   cancelIdx, cancelInWait, found,
                   cancelled, sig, loopVars, tailerVars,
                   emitted, terminated, stale, truncIdx, orphaned, released, eofSeen, stopReason>>

\* Rotation, second half: a new, empty file is created at the path.
Create ==
    /\ Following
    /\ path = 0
    /\ files' = Append(files, <<>>)
    /\ path' = Len(files) + 1
    /\ UNCHANGED <<realIDs, cfgVars, consumerVars, ghostVars,
                   cancelled, sig, loopVars, tailerVars,
                   histVars, stopReason>>

Environment ==
    \/ Consume \/ FollowFuncReturn \/ Cancel \/ Signal
    \/ Write \/ Truncate \/ Rename \/ Create

Next == Engine \/ Environment

Spec == Init /\ [][Next]_vars

\* The same program with small budgets, on a platform with file identities
\* and with a wake source configured.
LiveInit == InitWith(LiveInitLines, LiveOps) /\ realIDs /\ o.notify

\* The goroutine is scheduled and its poll timer fires.
CancelSpec == LiveInit /\ [][Next]_vars /\ WF_vars(Engine)

\* The goroutine is scheduled, but the poll timer need not fire (a long
\* poll interval): every step of the engine but WakeTimer is fair.  The wake
\* source is configured or not.
EngineUntimed ==
    \/ Top \/ ReadError \/ ReadEOF \/ ReadLine
    \/ CheckError \/ CheckTruncatedError \/ CheckTruncated \/ CheckSame
    \/ CheckRotated \/ ReopenFails \/ ReopenStatError \/ Reopen
    \/ WakeNotify \/ WakeCancel
    \/ Send \/ SendCancel
    \/ SetErr \/ CloseFile \/ CloseLines \/ CloseDone

WakeInit == InitWith(LiveInitLines, LiveOps) /\ realIDs

WakeSpec ==
    WakeInit /\ [][Next]_vars /\ WF_vars(EngineUntimed) /\ WF_vars(Consume)

\* And the consumer keeps receiving from Lines().
LiveSpec == LiveInit /\ [][Next]_vars /\ WF_vars(Engine) /\ WF_vars(Consume)

\* ------------------------------------------------ what the claims refer to
EmittedBytes == BytesOf(emitted)

\* The offset the engine started at.
StartPos == openFile(o.fromStart, initial)

\* Only appends so far: no truncation, no rename.
AppendOnly == n.truncs = 0 /\ n.rots = 0

\* ------------------------------------------------------------------ C1
\* C1: no partial-line leakage: every data byte of every Line sent on the
\* channel was, in the file it was written to, followed by a line terminator
\* (bytes never followed by a terminator are part of no Line).
NoPartialLineLeak == EmittedBytes \subseteq terminated

\* What holds of tailLoop instead: as long as no file was truncated, a Line
\* holds only bytes that a terminator has followed.
NoLeakUntruncated == n.truncs = 0 => NoPartialLineLeak

\* ------------------------------------------------------------------ C2
\* C2 as stated: while the file is only appended to, every Line's text is a
\* whole line of the file: all the bytes between two terminators (or the
\* start of the file and the first), stripped, also with fromStart = FALSE.
LineIsWholeFileLine ==
    AppendOnly => \A i \in 1..Len(emitted) : emitted[i] \in Range(LinesOf(files[1]))

\* C2 amended: while the file is only appended to, the Lines sent are, in
\* order, the lines of the bytes from the start offset on: a Line is all the
\* bytes since the previous terminator or, for the line the start offset
\* falls in, since the start offset.
LineIsBytesSinceStart ==
    AppendOnly =>
        IsPrefix(emitted, LinesOf(SubSeq(files[1], StartPos + 1, Len(files[1]))))

\* A Line made of two writes, with an EOF poll before it, from the end of a
\* file that held a line before.
LineIsBytesSinceStartWitness ==
    /\ AppendOnly
    /\ ~o.fromStart
    /\ StartPos > 0
    /\ eofSeen # 0
    /\ \E i \in 1..Len(emitted) : Cardinality(DataBytes(emitted[i])) = 2

\* ------------------------------------------------------------------ C3
\* Nothing has been appended since Follow was called.
Unwritten == \A f \in 1..Len(files) : files[f] = IF f = 1 THEN initial ELSE <<>>

\* C3 as stated: with fromStart = FALSE no byte of the lines the file held
\* before Follow is ever in a Line, and no Line is sent before something is
\* appended; with fromStart = TRUE the Lines sent begin with the lines the
\* file held, in file order.
StartPosition ==
    /\ ~o.fromStart => EmittedBytes \cap BytesOf(LinesOf(initial)) = {}
    /\ ~o.fromStart /\ Unwritten => emitted = <<>>
    /\ o.fromStart => \/ IsPrefix(emitted, LinesOf(initial))
                      \/ IsPrefix(LinesOf(initial), emitted)

\* C3 amended: the same, as long as the file has not been truncated.
StartPositionUntruncated == n.truncs = 0 => StartPosition

\* From the end of a file of two lines: a Line of appended bytes was sent.
StartPositionWitness ==
    /\ n.truncs = 0
    /\ ~o.fromStart
    /\ Len(LinesOf(initial)) = 2
    /\ emitted # <<>>

\* From the start of a file of two lines: both were sent, then a third.
StartPositionFromStartWitness ==
    /\ n.truncs = 0
    /\ o.fromStart
    /\ Len(LinesOf(initial)) = 2
    /\ Len(emitted) = 3
    /\ SubSeq(emitted, 1, 2) = LinesOf(initial)

\* ------------------------------------------------------------------ C5
\* C5: after a truncation to zero length, no Line sent afterwards holds a
\* byte that was in the pending partial line when the file was truncated.
TruncationDiscardsPartial ==
    \A i \in (truncIdx + 1)..Len(emitted) : DataBytes(emitted[i]) \cap stale = {}

\* ------------------------------------------------------------------ C4
\* The data bytes the fair specifications can write.
LiveBytes == {Data(i) : i \in 1..(LiveInitLines + LiveOps + 1)}

\* No cancellation, no fatal error.
Running == ~cancelled /\ stopReason = "none"

\* C4: while the file is only appended to and the engine is neither cancelled
\* nor failed, every byte of a complete line of the file from the start
\* offset on is eventually in a Line sent on the channel, also when the line
\* was completed after a read hit EOF.
FollowAfterEOF ==
    \A b \in LiveBytes :
        (Running /\ AppendOnly
            /\ b \in BytesOf(LinesOf(SubSeq(files[1], StartPos + 1, Len(files[1])))))
        ~> (b \in EmittedBytes \/ ~Running \/ ~AppendOnly)

\* A Line was sent after a read had hit EOF.
FollowAfterEOFWitness ==
    /\ Running /\ AppendOnly
    /\ eofSeen # 0
    /\ Len(emitted) >= eofSeen

\* ------------------------------------------------------------------ C6
\* C6: once the followed file has been truncated to zero length, every byte
\* of a complete line it holds is eventually in a Line, unless the engine is
\* cancelled or fails, the file is renamed away, or the line is truncated
\* away again.
TruncationRecovery ==
    \A b \in LiveBytes :
        (Running /\ n.zeroed > 0 /\ n.rots = 0 /\ b \in BytesOf(LinesOf(files[1])))
        ~> (b \in EmittedBytes \/ ~Running \/ n.rots > 0
                \/ b \notin BytesOf(LinesOf(files[1])))

\* ------------------------------------------------------------------ C7
\* The content of the file at the path, none when the path does not resolve.
AtPath == IF path = 0 THEN <<>> ELSE files[path]

\* C7: with file identities, every byte of a complete line of a file created
\* at the path after a rename is eventually in a Line, whatever fromStart is,
\* unless the engine is cancelled or fails, a file is truncated, or the new
\* file is renamed away in turn.
RotationRecovery ==
    \A b \in LiveBytes :
        (Running /\ n.truncs = 0 /\ path > 1 /\ b \in BytesOf(LinesOf(AtPath)))
        ~> (b \in EmittedBytes \/ ~Running \/ n.truncs > 0
                \/ b \notin DataBytes(AtPath))

\* A Line of the new file was sent by an engine started at the end of the old.
RotationRecoveryWitness ==
    /\ Running
    /\ n.truncs = 0
    /\ ~o.fromStart
    /\ path > 1
    /\ file = path
    /\ EmittedBytes \cap DataBytes(files[path]) # {}

\* ------------------------------------------------------------------ C9
\* C9: once the context is cancelled, the lines channel is eventually closed
\* and Done fires, with no help from the consumer.
CancelTerminates == cancelled ~> (linesClosed /\ doneClosed)

\* Done fired after a cancellation that found the channel full, and the
\* Line being sent was dropped.
CancelTerminatesWitness ==
    /\ doneClosed
    /\ stopReason = "cancel"
    /\ Len(lines) = QueueCap
    /\ line \notin Range(emitted)
    /\ line # <<>>

\* ------------------------------------------------------------------ C8
\* C8 as stated: no Line holds a byte written to a file after it was renamed
\* away.
NoOrphanedBytes == EmittedBytes \cap orphaned = {}

\* C8 amended: no Line holds a byte written to a renamed-away file that the
\* engine no longer held (after the state check reopened the path).
NoReleasedBytes == EmittedBytes \cap released = {}

\* A whole line was written to the old file after the engine reopened the
\* path, and the engine has polled the new file since.
NoReleasedBytesWitness ==
    /\ file # 1
    /\ pc = "wait"
    /\ \E i \in 1..Len(LinesOf(files[1])) :
          DataBytes(LinesOf(files[1])[i]) \cap released # {}

\* ------------------------------------------------------------------ C10
\* With the lines channel closed, t.err is nil exactly when tailLoop returned
\* on cancellation and non-nil exactly when it returned an I/O error.
ErrAtClose ==
    linesClosed => /\ err = "nil" <=> stopReason = "cancel"
                   /\ err # "nil" <=> stopReason = "fault"

\* C10: once the lines channel is closed, t.err tells why tailLoop stopped
\* (nil: cancellation; non-nil: a fatal I/O error), and it never changes
\* afterwards.
ErrTellsStopReason == []ErrAtClose /\ [][linesClosed => err' = err]_vars

\* The channel is closed after a fatal I/O error, with cancellation requested
\* as well.
ErrTellsStopReasonWitness ==
    /\ linesClosed
    /\ cancelled
    /\ err = "read error"

\* ------------------------------------------------------------------ C11
\* C11: when openFile fails, Follow returns a nil Tailer and an error with
\* the tailf prefix; no background task runs (the engine takes no step, the
\* channels are never made or closed, no Line is sent) and no file handle
\* stays open.  And Follow returns an error only then.
OpenFailureIsSynchronous ==
    /\ followErr # <<>> =>
          /\ ~tailer
          /\ followErr[1] = "tailf"
          /\ pc = "unstarted"
          /\ ~linesClosed /\ ~doneClosed
          /\ lines = <<>> /\ emitted = <<>>
          /\ err = "nil"
          /\ open = {}
    /\ followErr = <<>> => tailer /\ pc # "unstarted"

\* Follow failed at the seek to the end of an existing file, and the caller
\* has cancelled the context since.
OpenFailureIsSynchronousWitness ==
    /\ followErr = WrapError("seek")
    /\ path = 1
    /\ cancelled

\* ------------------------------------------------------------------ C12
\* C12: whenever Done has fired, the handle the engine holds is closed and
\* the lines channel is closed, also after rotations replaced the handle.
DoneImpliesReleased == doneClosed => (file \notin open /\ linesClosed)

\* What holds of Follow's deferred calls instead: when Done has fired the
\* lines channel is closed and the handle openFile returned is closed.
DoneImpliesOriginalReleased == doneClosed => (DeferredHandle \notin open /\ linesClosed)

\* ------------------------------------------------------------------ C13
\* C13: the Lines the consumer has received, followed by the Lines still in
\* the channel, are the texts tailLoop completed, in the order it read their
\* terminators: a prefix of them, none reordered, none skipped.
DeliveryOrder == IsPrefix(received \o lines, readLines)

\* The consumer has received two different Lines, and a third has been read.
DeliveryOrderWitness ==
    /\ Len(received) = 2
    /\ Len(readLines) = 3
    /\ received[1] # received[2]

\* ------------------------------------------------------------------ C14
\* The Line tailLoop is sending.
PendingLine == IF pc = "send" THEN <<line>> ELSE <<>>

\* The most Lines a behaviour of the fair specifications sends.
LiveLines == LiveInitLines + LiveOps + 1

\* C14: the channel never holds more than its capacity (64, here QueueCap);
\* with the channel full tailLoop stays in the send and reads nothing until
\* there is room or the context is cancelled; unless tailLoop stopped on
\* cancellation every line it read has been sent or is the one being sent;
\* and a Line being sent is eventually in the channel, unless the context is
\* cancelled.
BackpressureWithoutLoss ==
    /\ [](Len(lines) <= QueueCap)
    /\ [](stopReason # "cancel" => readLines = emitted \o PendingLine)
    /\ [][pc = "send" /\ Len(lines) = QueueCap
            => (pc' = "send" \/ cancelled) /\ readLines' = readLines /\ pos' = pos]_vars
    /\ \A k \in 0..LiveLines :
          (pc = "send" /\ Len(emitted) = k /\ ~cancelled)
          ~> (Len(emitted) > k \/ cancelled)

\* A Line was sent after tailLoop found the channel full: more Lines were
\* sent than the channel holds, with no cancellation.
BackpressureWithoutLossWitness ==
    /\ ~cancelled
    /\ Len(emitted) = QueueCap + 1
    /\ Len(lines) = QueueCap
    /\ Len(received) = 1

\* ------------------------------------------------------------------ C15
\* C15: a step that leaves the wait goes back to the top of the loop and is
\* a wake signal taken (only with a wake source configured), the poll timer
\* or the cancellation; the poll timer can always end the wait, so a missed
\* signal is covered; with no wake source configured a pending signal cannot
\* end it; and with a wake source, once a signal is pending every complete
\* line already in the file is eventually in a Line even if the poll timer
\* never fires (while the file is only appended to and the engine runs).
WakeConditions ==
    /\ [][pc = "wait" /\ pc' # "wait"
            => /\ pc' = "top"
               /\ IF o.notify THEN sig' \in {sig, sig - 1} ELSE sig' = sig]_vars
    /\ [](pc = "wait" => ENABLED WakeTimer)
    /\ [](pc = "wait" /\ cancelled => ENABLED WakeCancel)
    /\ [](~o.notify => ~ENABLED WakeNotify)
    /\ \A b \in LiveBytes :
          (Running /\ AppendOnly /\ o.notify /\ sig > 0
              /\ b \in BytesOf(LinesOf(SubSeq(files[1], StartPos + 1, Len(files[1])))))
          ~> (b \in EmittedBytes \/ ~Running \/ ~AppendOnly)

\* One byte was written and one wake signal sent; the engine, which had hit
\* EOF before, has taken the signal and sent the line the write completed.
WakeConditionsWitness ==
    /\ o.notify
    /\ Running /\ AppendOnly
    /\ n.ops = 2
    /\ Len(files[1]) = Len(initial) + 1
    /\ sig = 0
    /\ eofSeen # 0
    /\ Len(emitted) >= eofSeen

\* ------------------------------------------------------------------ C16
\* C16: when FollowFunc has returned after a successful Follow, the lines
\* channel is closed and drained, the texts passed to the callback are
\* exactly the Lines sent on the channel (same lines, same order, each once),
\* and the value returned is t.err, nil when tailLoop stopped on
\* cancellation; after a failed Follow it returns Follow's error and the
\* callback was never called.
FollowFuncIsAdapter ==
    ffRet.done =>
        /\ ffRet.openErr = followErr
        /\ tailer => /\ linesClosed /\ lines = <<>>
                     /\ received = emitted
                     /\ ffRet.finalErr = err
                     /\ stopReason = "cancel" <=> ffRet.finalErr = "nil"
        /\ ~tailer => received = <<>>

\* FollowFunc returned nil after a cancellation, its callback called with
\* two Lines.
FollowFuncIsAdapterWitness ==
    /\ ffRet.done
    /\ stopReason = "cancel"
    /\ Len(received) = 2
    /\ ffRet.finalErr = "nil"

\* ------------------------------------------------------------------ C17
\* A Line's text is not empty and does not end in CR or LF.
WellShaped(t) == t # <<>> /\ t[Len(t)] \notin {CR, LF}

\* The bytes a read step hands to tailLoop: those the reader held or read
\* from the file at this step, less those it holds back.
ReadBytes ==
    LET all == rbuf \o SubSeq(HeldData, pos + 1, pos')
    IN SubSeq(all, 1, Len(all) - Len(rbuf'))

\* C17: every Line ever sent, and the one being sent, has a text that is not
\* empty and does not end in CR or LF; a read that completes a line sends it
\* exactly when the pending buffer and the bytes read hold a byte other than
\* CR and LF: a line of CR and LF bytes only produces no Line.
LineShape ==
    /\ [](/\ \A i \in 1..Len(emitted) : WellShaped(emitted[i])
          /\ \A i \in 1..Len(lines) : WellShaped(lines[i])
          /\ pc = "send" => WellShaped(line))
    /\ [][pc = "read" /\ pc' = "top"
            => /\ DataBytes(partialLine \o ReadBytes) = {}
               /\ UNCHANGED <<emitted, lines, readLines>>]_vars
    /\ [][pc = "read" /\ pc' = "send"
            => /\ DataBytes(partialLine \o ReadBytes) # {}
               /\ line' = Stripped(partialLine \o ReadBytes)]_vars

\* The file holds one line ending in CR LF, and its text was sent without
\* them.
LineShapeWitness ==
    /\ tailer
    /\ files[1] = <<Data(1), CR, LF>>
    /\ emitted = <<<<Data(1)>>>>

\* ------------------------------------------------------------------ C18
\* C18 as stated: across appends, truncations to any shorter length and
\* rotations, no byte written to a file is in two Lines: a line committed to
\* the file produces at most one Line.
NoDuplicateLines ==
    \A i, j \in 1..Len(emitted) :
        i < j => DataBytes(emitted[i]) \cap DataBytes(emitted[j]) = {}

\* C18 amended: the same across appends, truncations to zero length and
\* rotations (a truncation to a shorter non-zero length makes the engine
\* read again the lines that remain).
NoDuplicateLinesZeroed == n.truncs = n.zeroed => NoDuplicateLines

\* A Line was sent before a truncation to zero and another after it.
NoDuplicateLinesZeroedWitness ==
    /\ n.zeroed > 0
    /\ n.truncs = n.zeroed
    /\ truncIdx > 0
    /\ Len(emitted) > truncIdx

\* ------------------------------------------------------------------ C19
\* C19: once the engine has moved on to the new file, every complete line
\* that the old file held when it was renamed away (from the start offset
\* on, no file truncated) is in a Line.
NoLossAcrossRotation ==
    (tailer /\ file # 1 /\ n.truncs = 0) =>
        preRename \cap BytesOf(LinesOf(SubSeq(files[1], StartPos + 1, Len(files[1]))))
            \subseteq EmittedBytes

\* ------------------------------------------------------------------ C20
\* The bytes the engine may have read from files it held before the one it
\* holds: their content, and what partialLine held at a reopen.
OldFileBytes ==
    discarded \cup UNION {DataBytes(files[f]) : f \in 1..(file - 1)}

\* C20: after a reopen the pending partial line holds no byte of an old
\* file, no Line sent since the last reopen holds one, and the identity held
\* is that of the handle held.
RotationDiscardsTail ==
    tailer =>
        /\ DataBytes(partialLine) \cap OldFileBytes = {}
        /\ \A i \in (reopenIdx + 1)..Len(emitted) :
              DataBytes(emitted[i]) \cap OldFileBytes = {}
        /\ fileID = getFileIdentity(file)

\* A Line was sent after a reopen that discarded an unterminated tail.
RotationDiscardsTailWitness ==
    /\ discarded # {}
    /\ file # 1
    /\ Len(emitted) > reopenIdx

\* ------------------------------------------------------------------ C21
\* C21: once the context is cancelled, at most one Line is enqueued after
\* the cancellation, wherever in its read, send or wait the loop was when the
\* context was cancelled; and once tailLoop has returned no Line is enqueued.
BoundedOutputAfterCancel ==
    /\ [](cancelled => Len(emitted) <= cancelIdx + 1)
    /\ [][cancelled /\ Len(emitted) > cancelIdx => emitted' = emitted]_vars
    /\ [][~Following => /\ emitted' = emitted
                        /\ lines' = lines \/ (lines # <<>> /\ lines' = Tail(lines))]_vars

\* The context was cancelled with Lines already sent and more of the file to
\* read; one more Line was enqueued, and the loop has stopped.
BoundedOutputAfterCancelWitness ==
    /\ cancelled
    /\ cancelIdx > 0
    /\ Len(emitted) = cancelIdx + 1
    /\ AppendOnly
    /\ Len(LinesOf(SubSeq(files[1], StartPos + 1, Len(files[1])))) > Len(emitted)
    /\ pc = "stopped"

\* ------------------------------------------------------------------ C22
\* Where the engine is on its way from the wait to Stopped.
WindingDown ==
    pc \in {"wait", "top", "ret", "closefile", "closelines", "closedone", "stopped"}

\* C22: when the context is cancelled with the engine in the wait, the engine
\* never reads the file or checks its state again (it goes from the wait to
\* the top of the loop and from there to its return; the handle, its offset,
\* the reader, the identity and the pending partial line stay as they were),
\* no Line is enqueued, no error is recorded, and the engine reaches Stopped,
\* also when the poll timer never fires.
CancelInWaitStops ==
    /\ [](cancelInWait => /\ WindingDown
                          /\ Len(emitted) = cancelIdx
                          /\ retErr = "nil" /\ err = "nil"
                          /\ stopReason \in {"none", "cancel"})
    /\ [][cancelInWait => UNCHANGED <<file, pos, rbuf, fileID, partialLine,
                                      readLines, emitted, eofSeen>>]_vars
    /\ cancelInWait ~> (pc = "stopped" /\ doneClosed /\ stopReason = "cancel")

\* The context was cancelled in the wait with a complete line unread in the
\* file and no wake signal pending, and the engine has stopped.
CancelInWaitStopsWitness ==
    /\ cancelInWait
    /\ pc = "stopped"
    /\ sig = 0
    /\ LF \in Range(SubSeq(files[file], pos + 1, Len(files[file])))

\* ------------------------------------------------------------------ C23
\* The state check before the wait found the path unresolved, or found a new
\* identity at the path and could not open the file.
Transient == found \in {"missing", "unopened"}

\* C23: a state check that finds the path unresolved (the held handle's own
\* seek and stat having succeeded, the file not truncated), or that cannot
\* open the file of a new identity, ends in the wait with no error returned
\* or recorded; the held handle stays open and is the one held before, and
\* its offset, the held identity, the pending partial line and the Lines
\* sent are as before the check; and unless the engine is cancelled or
\* fails, it comes to the state check again.
TransientAbsorbed ==
    /\ [][pc = "check" /\ pc' # "check" /\ path = 0
            /\ ~IsTruncated(Len(HeldData), pos)
            /\ retErr' \notin {"seek error", "stat error"}
          => found' = "missing"]_vars
    /\ [][pc = "reopen" /\ pc' # "reopen" /\ path = 0 => found' = "unopened"]_vars
    /\ [][~Transient /\ Transient'
          => /\ pc' = "wait"
             /\ file \in open
             /\ UNCHANGED <<file, pos, fileID, partialLine, open, emitted, lines,
                            err, retErr, stopReason>>]_vars
    /\ [](Transient => /\ pc = "wait" /\ stopReason = "none"
                       /\ err = "nil" /\ retErr = "nil"
                       /\ file \in open /\ fileID = getFileIdentity(file))
    /\ (Transient /\ Running) ~> (pc = "check" \/ ~Running)

\* With a partial line pending, the state check found a new file at the
\* path, the file was renamed away before it was opened, and the engine is
\* in the wait.
TransientAbsorbedWitness ==
    /\ found = "unopened"
    /\ partialLine # <<>>
    /\ Running
    /\ file = 1 /\ open = {1}

\* ------------------------------------------------------------------ C24
\* C24: where getFileIdentity gives the zero identity, the state check never
\* reopens the path: the engine holds the handle Follow opened and the zero
\* identity for as long as it lives, and no Line holds a byte of a file
\* created at the path later; and a state check that finds the size of the
\* held file below the offset (its seeks and stat succeeding) still seeks to
\* offset zero and resets the reader.
SentinelNeverRotates ==
    /\ [](~realIDs /\ tailer
            => /\ file = 1 /\ fileID = 0
               /\ open \subseteq {1}
               /\ pc # "reopen" /\ found # "reopened"
               /\ \A f \in 2..Len(files) : EmittedBytes \cap DataBytes(files[f]) = {})
    /\ [][~realIDs /\ pc = "check" /\ pc' # "check" /\ retErr' = "nil"
            /\ IsTruncated(Len(HeldData), pos)
          => /\ pos' = 0 /\ rbuf' = <<>>
             /\ pc' = "wait" /\ found' = "truncated"
             /\ file' = file /\ fileID' = fileID]_vars

\* With the zero identity: the file was read, then truncated to zero, and the
\* engine went back to offset zero; then the file was renamed away and a new
\* one created at the path, and the state check found no change.
SentinelNeverRotatesWitness ==
    /\ ~realIDs
    /\ emitted # <<>>
    /\ n.zeroed = 1
    /\ pos = 0
    /\ path > 1
    /\ found = "same"

====
